---------------------------- MODULE Spec2Model ----------------------------
(***************************************************************************)
(* A model of jsxlate's jsx-translator.js: finding the messages of a JSX   *)
(* source, sanitizing them for the translator, reconstituting translations *)
(* against the original message and translating a whole document.          *)
(*                                                                         *)
(* Conventions of the model                                                *)
(*  - A JavaScript string is the sequence of its lexemes (Seq(STRING)):    *)
(*    "<a:foo href='x'/>" is <<"<","a",":","foo","href","=","'","x","'",   *)
(*    "/>">>.  String concatenation is \o.  The empty string and undefined *)
(*    are both <<>>: the code only tests such values for truthiness.       *)
(*  - An AST node is a record shaped like esprima-fb's node; an array is a *)
(*    sequence; null is the record Null.  Of the loc annotations that      *)
(*    esprima adds (parse is called with loc: true) the model keeps the    *)
(*    one the code's behaviour depends on: the loc of an attribute's name, *)
(*    which is part of the key of attributeMap.  A loc is the position of  *)
(*    the lexeme in the parsed text.                                       *)
(*  - A function that may throw returns [ok |-> TRUE, val |-> v] or        *)
(*    [ok |-> FALSE, err |-> e].                                           *)
(***************************************************************************)
EXTENDS Integers, Sequences, FiniteSets, TLC

Null == [type |-> "null"]
Undefined == <<>>

Ok(v) == [ok |-> TRUE, val |-> v]
Throw(e) == [ok |-> FALSE, err |-> e]

\* A JavaScript Error (TypeError, SyntaxError, ...): it has no set method.
JsError(message) == [isInputError |-> FALSE, description |-> message]

InputError(description) == [isInputError |-> TRUE, description |-> description]

isInputError(e) == e.isInputError

\* e.set(key, value) of an Immutable Map
MapSet(e, key, value) == [k \in DOMAIN e \cup {key} |-> IF k = key THEN value ELSE e[k]]

(***************************************************************************)
(* escodegen: generate.                                                    *)
(***************************************************************************)
RECURSIVE generate(_)
RECURSIVE generateAll(_, _)

\* the printed forms of the nodes of list, joined by the lexemes sep
generateAll(list, sep) ==
    IF list = <<>> THEN <<>>
    ELSE IF Len(list) = 1 THEN generate(list[1])
    ELSE generate(list[1]) \o sep \o generateAll(Tail(list), sep)

RECURSIVE generateJsxChildren(_)
generateJsxChildren(children) ==
    IF children = <<>> THEN <<>>
    ELSE (IF children[1].type = "Literal" THEN children[1].value ELSE generate(children[1]))
         \o generateJsxChildren(Tail(children))

generate(ast) ==
    CASE ast.type = "Program" ->
           IF ast.body = <<>> THEN <<>> ELSE generateAll(ast.body, <<>>)
      [] ast.type = "ExpressionStatement" -> generate(ast.expression) \o <<";">>
      [] ast.type = "Identifier" -> ast.name
      [] ast.type = "Literal" -> <<"'">> \o ast.value \o <<"'">>
      [] ast.type = "MemberExpression" ->
           IF ast.computed
           THEN generate(ast.object) \o <<"[">> \o generate(ast.property) \o <<"]">>
           ELSE generate(ast.object) \o <<".">> \o generate(ast.property)
      [] ast.type = "CallExpression" ->
           generate(ast.callee) \o <<"(">> \o generateAll(ast.arguments, <<",">>) \o <<")">>
      [] ast.type = "XJSIdentifier" -> ast.name
      [] ast.type = "XJSNamespacedName" ->
           generate(ast.namespace) \o <<":">> \o generate(ast.name)
      [] ast.type = "XJSAttribute" ->
           generate(ast.name)
           \o (IF ast.value = Null THEN <<>> ELSE <<"=">> \o generate(ast.value))
      [] ast.type = "XJSOpeningElement" ->
           <<"<">> \o generate(ast.name) \o generateAll(ast.attributes, <<>>)
           \o (IF ast.selfClosing THEN <<"/>">> ELSE <<">">>)
      [] ast.type = "XJSClosingElement" -> <<"</">> \o generate(ast.name) \o <<">">>
      [] ast.type = "XJSElement" ->
           generate(ast.openingElement)
           \o generateJsxChildren(ast.children)
           \o (IF ast.closingElement = Null THEN <<>> ELSE generate(ast.closingElement))
      [] ast.type = "XJSExpressionContainer" ->
           <<"{">> \o generate(ast.expression) \o <<"}">>
      [] ast.type = "XJSEmptyExpression" -> <<>>

generateOpening(jsxExpressionAst) == generate(jsxExpressionAst.openingElement)

(***************************************************************************)
(* esprima-fb: parse.  A recursive-descent parser of the lexemes of a      *)
(* program: expression statements whose expressions are identifiers,       *)
(* string literals, member expressions, calls and JSX elements.  A rule    *)
(* returns Parsed(node, p), the node read and the position after it, or    *)
(* NoParse, esprima's syntax error.  The rules call one another through    *)
(* parseRule, which dispatches on the name of the rule; acc is what the    *)
(* rule has read so far.                                                   *)
(***************************************************************************)
Punctuation ==
    {"<", "</", ">", "/>", "{", "}", "=", ":", ".", "(", ")", "[", "]", ",", ";", "'"}

NoParse == [ok |-> FALSE, err |-> JsError(<<"SyntaxError">>)]
Parsed(node, p) == [ok |-> TRUE, val |-> node, p |-> p]

At(toks, p) == IF p >= 1 /\ p <= Len(toks) THEN toks[p] ELSE ""
IsWord(tok) == tok # "" /\ tok \notin Punctuation

\* the first position >= p that holds one of the lexemes stops, or Len(toks) + 1
RECURSIVE scanTo(_, _, _)
scanTo(toks, p, stops) ==
    IF p > Len(toks) \/ toks[p] \in stops THEN p ELSE scanTo(toks, p + 1, stops)

RECURSIVE parseRule(_, _, _, _)

\* 'text', from the position after the opening quote
parseStringLiteral(toks, p) ==
    LET q == scanTo(toks, p, {"'"})
    IN  IF q <= Len(toks)
        THEN Parsed([type |-> "Literal", value |-> SubSeq(toks, p, q - 1)], q + 1)
        ELSE NoParse

parsePrimary(toks, p) ==
    CASE At(toks, p) = "'" -> parseStringLiteral(toks, p + 1)
      [] At(toks, p) = "<" -> parseRule("XJSElement", toks, p, <<>>)
      [] IsWord(At(toks, p)) -> Parsed([type |-> "Identifier", name |-> <<toks[p]>>], p + 1)
      [] OTHER -> NoParse

parseExpression(toks, p) ==
    LET left == parseRule("Primary", toks, p, <<>>)
    IN  IF left.ok THEN parseRule("Postfix", toks, left.p, <<left.val>>) ELSE left

\* the arguments of a call, from the position after "(" or after ","
parseArguments(toks, p, args) ==
    IF At(toks, p) = ")" /\ args = <<>> THEN Parsed(args, p + 1)
    ELSE LET arg == parseRule("Expression", toks, p, <<>>)
         IN  IF ~arg.ok THEN arg
             ELSE IF At(toks, arg.p) = ","
                  THEN parseRule("Arguments", toks, arg.p + 1, Append(args, arg.val))
             ELSE IF At(toks, arg.p) = ")"
                  THEN Parsed(Append(args, arg.val), arg.p + 1)
             ELSE NoParse

\* what follows the expression left[1]: .name, [expression] or (arguments)
parsePostfix(toks, p, left) ==
    CASE At(toks, p) = "." ->
           IF IsWord(At(toks, p + 1))
           THEN parseRule("Postfix", toks, p + 2,
                    <<[type |-> "MemberExpression", computed |-> FALSE, object |-> left[1],
                       property |-> [type |-> "Identifier", name |-> <<toks[p + 1]>>]]>>)
           ELSE NoParse
      [] At(toks, p) = "[" ->
           LET prop == parseRule("Expression", toks, p + 1, <<>>)
           IN  IF prop.ok /\ At(toks, prop.p) = "]"
               THEN parseRule("Postfix", toks, prop.p + 1,
                        <<[type |-> "MemberExpression", computed |-> TRUE, object |-> left[1],
                           property |-> prop.val]>>)
               ELSE NoParse
      [] At(toks, p) = "(" ->
           LET args == parseRule("Arguments", toks, p + 1, <<>>)
           IN  IF args.ok
               THEN parseRule("Postfix", toks, args.p,
                        <<[type |-> "CallExpression", callee |-> left[1],
                           arguments |-> args.val]>>)
               ELSE NoParse
      [] OTHER -> Parsed(left[1], p)

\* name or namespace:name
parseXJSElementName(toks, p) ==
    IF ~IsWord(At(toks, p)) THEN NoParse
    ELSE IF At(toks, p + 1) = ":" /\ IsWord(At(toks, p + 2))
         THEN Parsed([type |-> "XJSNamespacedName",
                      namespace |-> [type |-> "XJSIdentifier", name |-> <<toks[p]>>],
                      name |-> [type |-> "XJSIdentifier", name |-> <<toks[p + 2]>>]], p + 3)
         ELSE Parsed([type |-> "XJSIdentifier", name |-> <<toks[p]>>], p + 1)

\* {expression}, from the position after "{"
parseXJSExpressionContainer(toks, p) ==
    LET e == parseRule("Expression", toks, p, <<>>)
    IN  IF e.ok /\ At(toks, e.p) = "}"
        THEN Parsed([type |-> "XJSExpressionContainer", expression |-> e.val], e.p + 1)
        ELSE NoParse

parseXJSAttributeValue(toks, p) ==
    CASE At(toks, p) = "'" -> parseStringLiteral(toks, p + 1)
      [] At(toks, p) = "{" -> parseRule("XJSExpressionContainer", toks, p + 1, <<>>)
      [] OTHER -> NoParse

\* the attributes of an opening element, up to its ">" or "/>"
parseXJSAttributes(toks, p, attrs) ==
    IF At(toks, p) \in {">", "/>"} THEN Parsed(attrs, p)
    ELSE IF ~IsWord(At(toks, p)) THEN NoParse
    ELSE IF At(toks, p + 1) = "="
         THEN LET v == parseRule("XJSAttributeValue", toks, p + 2, <<>>)
              IN  IF v.ok
                  THEN parseRule("XJSAttributes", toks, v.p,
                           Append(attrs, [type |-> "XJSAttribute",
                                          name |-> [type |-> "XJSIdentifier",
                                                    name |-> <<toks[p]>>, loc |-> p],
                                          value |-> v.val]))
                  ELSE NoParse
         ELSE parseRule("XJSAttributes", toks, p + 1,
                  Append(attrs, [type |-> "XJSAttribute",
                                 name |-> [type |-> "XJSIdentifier",
                                           name |-> <<toks[p]>>, loc |-> p],
                                 value |-> Null]))

\* the children of an element, up to its closing tag
parseXJSChildren(toks, p, children) ==
    CASE p > Len(toks) -> NoParse
      [] At(toks, p) = "</" -> Parsed(children, p)
      [] At(toks, p) = "<" ->
           LET e == parseRule("XJSElement", toks, p, <<>>)
           IN  IF e.ok THEN parseRule("XJSChildren", toks, e.p, Append(children, e.val))
               ELSE NoParse
      [] At(toks, p) = "{" ->
           IF At(toks, p + 1) = "}"
           THEN parseRule("XJSChildren", toks, p + 2,
                    Append(children, [type |-> "XJSExpressionContainer",
                                      expression |-> [type |-> "XJSEmptyExpression"]]))
           ELSE LET e == parseRule("XJSExpressionContainer", toks, p + 1, <<>>)
                IN  IF e.ok THEN parseRule("XJSChildren", toks, e.p, Append(children, e.val))
                    ELSE NoParse
      [] OTHER ->
           LET q == scanTo(toks, p, {"<", "</", "{"})
           IN  parseRule("XJSChildren", toks, q,
                   Append(children, [type |-> "Literal", value |-> SubSeq(toks, p, q - 1)]))

\* <name attributes> or <name attributes/>, from the position after "<"
parseXJSOpeningElement(toks, p) ==
    LET name == parseRule("XJSElementName", toks, p, <<>>)
        attrs == parseRule("XJSAttributes", toks, name.p, <<>>)
    IN  IF name.ok /\ attrs.ok
        THEN Parsed([type |-> "XJSOpeningElement", name |-> name.val,
                     selfClosing |-> (At(toks, attrs.p) = "/>"),
                     attributes |-> attrs.val], attrs.p + 1)
        ELSE NoParse

\* </name>, from the position after "</"
parseXJSClosingElement(toks, p) ==
    LET name == parseRule("XJSElementName", toks, p, <<>>)
    IN  IF name.ok /\ At(toks, name.p) = ">"
        THEN Parsed([type |-> "XJSClosingElement", name |-> name.val], name.p + 1)
        ELSE NoParse

\* an element: the name of its closing tag is that of its opening tag
parseXJSElement(toks, p) ==
    LET opening == parseRule("XJSOpeningElement", toks, p + 1, <<>>)
        children == parseRule("XJSChildren", toks, opening.p, <<>>)
        closing == parseRule("XJSClosingElement", toks, children.p + 1, <<>>)
    IN  IF At(toks, p) # "<" \/ ~opening.ok THEN NoParse
        ELSE IF opening.val.selfClosing
             THEN Parsed([type |-> "XJSElement", openingElement |-> opening.val,
                          closingElement |-> Null, children |-> <<>>], opening.p)
        ELSE IF children.ok /\ closing.ok /\ closing.val.name = opening.val.name
             THEN Parsed([type |-> "XJSElement", openingElement |-> opening.val,
                          closingElement |-> closing.val, children |-> children.val],
                         closing.p)
        ELSE NoParse

\* the statements of a program, from position p
parseStatements(toks, p, body) ==
    IF p > Len(toks) THEN Parsed([type |-> "Program", body |-> body], p)
    ELSE LET e == parseRule("Expression", toks, p, <<>>)
         IN  IF e.ok /\ (At(toks, e.p) = ";" \/ e.p = Len(toks) + 1)
             THEN parseRule("Statements", toks, IF At(toks, e.p) = ";" THEN e.p + 1 ELSE e.p,
                      Append(body, [type |-> "ExpressionStatement", expression |-> e.val]))
             ELSE NoParse

\* the expression of the first statement of a program; undefined (here Null)
\* when it has none
parseFirstExpression(toks, p) ==
    LET program == parseRule("Statements", toks, p, <<>>)
    IN  IF ~program.ok THEN program
        ELSE IF program.val.body = <<>> THEN Parsed(Null, program.p)
        ELSE Parsed(program.val.body[1].expression, program.p)

parseRule(rule, toks, p, acc) ==
    CASE rule = "Statements" -> parseStatements(toks, p, acc)
      [] rule = "FirstExpression" -> parseFirstExpression(toks, p)
      [] rule = "Expression" -> parseExpression(toks, p)
      [] rule = "Primary" -> parsePrimary(toks, p)
      [] rule = "Postfix" -> parsePostfix(toks, p, acc)
      [] rule = "Arguments" -> parseArguments(toks, p, acc)
      [] rule = "XJSElement" -> parseXJSElement(toks, p)
      [] rule = "XJSOpeningElement" -> parseXJSOpeningElement(toks, p)
      [] rule = "XJSClosingElement" -> parseXJSClosingElement(toks, p)
      [] rule = "XJSElementName" -> parseXJSElementName(toks, p)
      [] rule = "XJSAttributes" -> parseXJSAttributes(toks, p, acc)
      [] rule = "XJSAttributeValue" -> parseXJSAttributeValue(toks, p)
      [] rule = "XJSExpressionContainer" -> parseXJSExpressionContainer(toks, p)
      [] rule = "XJSChildren" -> parseXJSChildren(toks, p, acc)

\* parse(src): the program, or esprima's syntax error
parse(text) == parseRule("Statements", text, 1, <<>>)

\* parseFragment(src): parse(src).getIn(['body', 0, 'expression'])
parseFragment(text) == parseRule("FirstExpression", text, 1, <<>>)

(***************************************************************************)
(* AST UTILITIES                                                           *)
(***************************************************************************)
\* allowedAttributesByComponentName[componentName] || []
allowedAttributesByComponentName(name) ==
    IF name = <<"a">> THEN << <<"href">> >> ELSE <<>>

Range(list) == {list[i] : i \in DOMAIN list}

componentNameAst(jsxElementAst) ==
    LET nameAst == jsxElementAst.openingElement.name
    IN  IF nameAst.type = "XJSNamespacedName" THEN nameAst.namespace ELSE nameAst

componentName(jsxElementAst) == generate(componentNameAst(jsxElementAst))

attributes(jsxElementAst) == jsxElementAst.openingElement.attributes

\* jsxElementAst.updateIn(['openingElement', 'attributes'], f), given f's result
updateAttributes(jsxElementAst, newAttributes) ==
    [jsxElementAst EXCEPT !.openingElement.attributes = newAttributes]

attributeName(attributeAst) == attributeAst.name.name

\* attributeAst.getIn(['value', 'value']): undefined unless the value is a literal
attributeValue(attributeAst) ==
    IF attributeAst.value.type = "Literal" THEN attributeAst.value.value ELSE Undefined

attributeWithName(jsxElementAst, name) ==
    LET found == SelectSeq(attributes(jsxElementAst), LAMBDA attrib : attributeName(attrib) = name)
    IN  IF found = <<>> THEN Undefined ELSE attributeValue(found[1])

removeAttributeWithName(jsxElementAst, name) ==
    updateAttributes(jsxElementAst,
        SelectSeq(attributes(jsxElementAst), LAMBDA attrib : attributeName(attrib) # name))

attributeIsSafe(name, attributeAst) ==
    attributeName(attributeAst) \in Range(allowedAttributesByComponentName(name))

hasUnsafeAttributes(jsxElementAst) ==
    \E i \in DOMAIN attributes(jsxElementAst) :
        ~attributeIsSafe(componentName(jsxElementAst), attributes(jsxElementAst)[i])

withSafeAttributesOnly(jsxElementAst) ==
    updateAttributes(jsxElementAst,
        SelectSeq(attributes(jsxElementAst),
                  LAMBDA a : attributeIsSafe(componentName(jsxElementAst), a)))

componentDesignation(jsxElementAst) ==
    LET nameAst == jsxElementAst.openingElement.name
    IN  IF nameAst.type = "XJSNamespacedName"
        THEN generate(nameAst.name)
        ELSE attributeWithName(jsxElementAst, <<"i18n-designation">>)

setJsxElementName(jsxElementAst, nameAst) ==
    IF jsxElementAst.openingElement.selfClosing
    THEN [jsxElementAst EXCEPT !.openingElement.name = nameAst]
    ELSE [jsxElementAst EXCEPT !.openingElement.name = nameAst,
                               !.closingElement.name = nameAst]

rewriteDesignationToNamespaceSyntax(jsxElementAst) ==
    LET name == componentName(jsxElementAst)
        designation == componentDesignation(jsxElementAst)
        attribute == attributeWithName(jsxElementAst, <<"i18n-designation">>)
        namespacedName ==
            [type |-> "XJSNamespacedName",
             name |-> [type |-> "XJSIdentifier", name |-> designation],
             namespace |-> [type |-> "XJSIdentifier", name |-> name]]
    IN  IF designation # Undefined /\ attribute # Undefined
        THEN removeAttributeWithName(setJsxElementName(jsxElementAst, namespacedName),
                                     <<"i18n-designation">>)
        ELSE jsxElementAst

removeDesignation(jsxElementAst) ==
    removeAttributeWithName(
        setJsxElementName(jsxElementAst, componentNameAst(jsxElementAst)),
        <<"i18n-designation">>)

(***************************************************************************)
(* An Immutable Map of at most eight entries iterates in insertion order:  *)
(* it is modelled as the sequence of its entries <<key, value>>.           *)
(***************************************************************************)
MapKeys(map) == {map[i][1] : i \in DOMAIN map}

\* map.set(k, v): the value replaced in place, or a new last entry
MapPut(map, k, v) ==
    IF k \in MapKeys(map)
    THEN [i \in DOMAIN map |-> IF map[i][1] = k THEN <<k, v>> ELSE map[i]]
    ELSE Append(map, <<k, v>>)

\* I.Map(entries)
RECURSIVE MapOf(_)
MapOf(entries) ==
    IF entries = <<>> THEN <<>>
    ELSE LET n == Len(entries)
         IN  MapPut(MapOf(SubSeq(entries, 1, n - 1)), entries[n][1], entries[n][2])

\* map.merge(other)
RECURSIVE MapMerge(_, _)
MapMerge(map, other) ==
    IF other = <<>> THEN map
    ELSE MapMerge(MapPut(map, other[1][1], other[1][2]), Tail(other))

attributeMap(attrs) == MapOf([i \in DOMAIN attrs |-> <<attrs[i].name, attrs[i].value>>])

attributesFromMap(map) ==
    [i \in DOMAIN map |-> [type |-> "XJSAttribute", name |-> map[i][1], value |-> map[i][2]]]

(***************************************************************************)
(* FINDING: the matchers                                                   *)
(***************************************************************************)
isStringMarker(ast) ==
    /\ ast.type = "CallExpression"
    /\ ast.callee.type = "Identifier"
    /\ ast.callee.name = <<"i18n">>

isElementMarker(ast) ==
    /\ ast.type = "XJSElement"
    /\ ast.openingElement.type = "XJSOpeningElement"
    /\ ast.openingElement.selfClosing = FALSE
    /\ ast.openingElement.name.type = "XJSIdentifier"
    /\ ast.openingElement.name.name = <<"I18N">>

isMarker(ast) == isStringMarker(ast) \/ isElementMarker(ast)

\* every Literal of the model holds a string
isStringLiteral(ast) == ast.type = "Literal"

isIdentifier(ast) == ast.type = "Identifier"

RECURSIVE isSimpleMemberExpression(_)
isSimpleMemberExpression(ast) ==
    /\ ast.type = "MemberExpression"
    /\ ast.computed = FALSE
    /\ (isIdentifier(ast.object) \/ isSimpleMemberExpression(ast.object))
    /\ isIdentifier(ast.property)

isNamedExpression(ast) == isIdentifier(ast) \/ isSimpleMemberExpression(ast)

(***************************************************************************)
(* escodegen throws on a value that is no AST node (undefined, an          *)
(* Immutable List): canGenerate tells whether generate(ast) returns.       *)
(***************************************************************************)
RECURSIVE canGenerate(_)
canGenerate(ast) ==
    LET all(list) == \A i \in DOMAIN list : canGenerate(list[i])
    IN  CASE ast.type \in {"Identifier", "Literal", "XJSIdentifier", "XJSEmptyExpression"} -> TRUE
          [] ast.type = "Program" -> all(ast.body)
          [] ast.type \in {"ExpressionStatement", "XJSExpressionContainer"} ->
               canGenerate(ast.expression)
          [] ast.type = "MemberExpression" ->
               canGenerate(ast.object) /\ canGenerate(ast.property)
          [] ast.type = "CallExpression" -> canGenerate(ast.callee) /\ all(ast.arguments)
          [] ast.type = "XJSNamespacedName" -> TRUE
          [] ast.type = "XJSAttribute" -> ast.value = Null \/ canGenerate(ast.value)
          [] ast.type = "XJSOpeningElement" -> all(ast.attributes)
          [] ast.type = "XJSClosingElement" -> TRUE
          [] ast.type = "XJSElement" -> canGenerate(ast.openingElement) /\ all(ast.children)
          [] OTHER -> FALSE

(***************************************************************************)
(* NAMED EXPRESSIONS, FINDING DEFINITIONS OF                               *)
(* A definition is the pair <<name, value>>; the value of an element's     *)
(* definition is the Immutable List of its hidden attributes, written      *)
(* [type |-> "List", items |-> ...], and the value of an expression        *)
(* container's definition is its expression.                               *)
(***************************************************************************)
nameAndExpressionForNamedExpression(ast) == <<generate(ast), ast>>

\* list.join(sep)
RECURSIVE Join(_, _)
Join(list, sep) ==
    IF list = <<>> THEN <<>>
    ELSE IF Len(list) = 1 THEN list[1]
    ELSE list[1] \o sep \o Join(Tail(list), sep)

\* The loop of duplicatedValues: seen and dupes after the elements of list.
RECURSIVE duplicatedValuesFrom(_, _, _)
duplicatedValuesFrom(list, seen, dupes) ==
    IF list = <<>> THEN dupes
    ELSE LET x == list[1]
         IN  IF x \in Range(seen) /\ x \notin Range(dupes)
             THEN duplicatedValuesFrom(Tail(list), seen, Append(dupes, x))
             ELSE duplicatedValuesFrom(Tail(list), Append(seen, x), dupes)

\* A duplicate search that compares each value with its predecessor only.
duplicatedNeighbours(list) ==
    SelectSeq([i \in 1..(Len(list) - 1) |-> IF list[i] = list[i + 1] THEN list[i] ELSE <<>>],
              LAMBDA x : x # <<>>)

\* I.Set(dupes), in the order of insertion
duplicatedValues(list) == duplicatedValuesFrom(list, <<>>, <<>>)

hiddenAttributesOf(ast) ==
    SelectSeq(attributes(ast), LAMBDA attrib : ~attributeIsSafe(componentName(ast), attrib))

RECURSIVE _namedExpressionDefinitions(_)
RECURSIVE namedExpressionDefinitionsInChildren(_)

\* the concatenation of the lists of the outcomes first and rest
Concat(first, rest) ==
    IF ~first.ok THEN first
    ELSE IF ~rest.ok THEN rest
    ELSE Ok(first.val \o rest.val)

\* ast.get('children').flatMap(_namedExpressionDefinitions)
namedExpressionDefinitionsInChildren(children) ==
    IF children = <<>> THEN Ok(<<>>)
    ELSE Concat(_namedExpressionDefinitions(children[1]),
                namedExpressionDefinitionsInChildren(Tail(children)))

\* the definitions of an element whose children have the definitions inChildren
namedExpressionDefinitionsInJsxElementWith(ast, hiddenAttributes, inChildren) ==
    IF hiddenAttributes = <<>> THEN inChildren
    ELSE IF componentDesignation(ast) = Undefined
    THEN Throw(InputError(<<"Element needs a designation: ">> \o generateOpening(ast)))
    ELSE IF ~inChildren.ok THEN inChildren
    ELSE Ok(<< <<componentDesignation(ast), [type |-> "List", items |-> hiddenAttributes]>> >>
            \o inChildren.val)

namedExpressionDefinitionsInJsxElement(ast) ==
    namedExpressionDefinitionsInJsxElementWith(ast, hiddenAttributesOf(ast),
        namedExpressionDefinitionsInChildren(ast.children))

namedExpressionDefinitionsInJsxExpressionContainer(ast) ==
    IF isNamedExpression(ast.expression)
    THEN Ok(<< nameAndExpressionForNamedExpression(ast.expression) >>)
    ELSE Ok(<<>>)

\* the definitions of ast, in document order
_namedExpressionDefinitions(ast) ==
    CASE ast.type = "XJSElement" -> namedExpressionDefinitionsInJsxElement(ast)
      [] ast.type = "XJSExpressionContainer" ->
           namedExpressionDefinitionsInJsxExpressionContainer(ast)
      [] OTHER -> Ok(<<>>)

\* listOfPairs.map(p => p.first())
names(listOfPairs) == [i \in DOMAIN listOfPairs |-> listOfPairs[i][1]]

\* the exception of namedExpressionDefinitions
duplicateNames(dupes) ==
    InputError(<<"Message has two named expressions with the same name: ">>
               \o Join(dupes, <<", ">>))

\* namedExpressionDefinitions, given the outcome of _namedExpressionDefinitions
namedExpressionDefinitionsFrom(listOfPairs) ==
    IF ~listOfPairs.ok THEN listOfPairs
    ELSE IF duplicatedValues(names(listOfPairs.val)) # <<>>
    THEN Throw(duplicateNames(duplicatedValues(names(listOfPairs.val))))
    ELSE Ok(MapOf(listOfPairs.val))

namedExpressionDefinitions(ast) ==
    namedExpressionDefinitionsFrom(_namedExpressionDefinitions(ast))

\* definitions.has(name), and definitions.get(name) of a name it has
DefinitionsHas(definitions, name) == name \in MapKeys(definitions)
DefinitionsGet(definitions, name) ==
    definitions[CHOOSE i \in DOMAIN definitions : definitions[i][1] = name][2]

\* The statements "r; return value" and "r; next": an exception of r
\* propagates.
Then(r, value) == IF r.ok THEN Ok(value) ELSE r
AndThen(r, next) == IF r.ok THEN next ELSE r

\* ast.update('children', ...), given the outcome of mapping the children
updateChildren(ast, children) ==
    IF children.ok THEN Ok([ast EXCEPT !.children = children.val]) ELSE children

\* ast.set('expression', ...), given the outcome of computing the expression
setExpression(ast, expression) ==
    IF expression.ok THEN Ok([ast EXCEPT !.expression = expression.val]) ELSE expression

(***************************************************************************)
(* VALIDATE                                                                *)
(***************************************************************************)
RECURSIVE validateMessage(_)
RECURSIVE validateChildren(_)

validateCallExpression(ast) ==
    IF ~isStringMarker(ast)
    THEN Throw(JsError(<<"Internal error: tried to sanitize call expression: ">>
                       \o generate(ast)))
    ELSE Ok(ast)

\* ast.get('children').forEach(validateMessage)
validateChildren(children) ==
    IF children = <<>> THEN Ok(children)
    ELSE AndThen(validateMessage(children[1]), validateChildren(Tail(children)))

\* validateJsxElement after its call of namedExpressionDefinitions
validateJsxElementItself(ast) ==
    IF hasUnsafeAttributes(ast) /\ componentDesignation(ast) = Undefined
    THEN Throw(InputError(<<"Element needs a designation: ">> \o generateOpening(ast)))
    ELSE IF isElementMarker(ast)
            /\ \E i \in DOMAIN ast.children : isElementMarker(ast.children[i])
    THEN Throw(InputError(<<"Don't directly nest <I18N> tags: ">> \o generate(ast)))
    ELSE validateChildren(ast.children)

validateJsxElement(ast) ==
    AndThen(namedExpressionDefinitions(ast), validateJsxElementItself(ast))

validateJsxExpressionContainer(ast) ==
    IF ~isNamedExpression(ast.expression)
    THEN Throw(InputError(<<"Message contains a non-named expression: ">> \o generate(ast)))
    ELSE Ok(ast)

validateMessage(ast) ==
    Then(CASE ast.type = "CallExpression" -> validateCallExpression(ast)
           [] ast.type = "XJSElement" -> validateJsxElement(ast)
           [] ast.type = "XJSExpressionContainer" -> validateJsxExpressionContainer(ast)
           [] OTHER -> Ok(ast),
         ast)

(***************************************************************************)
(* VALIDATE TRANSLATIONS                                                   *)
(***************************************************************************)
validateTranslation(translation, original) ==
    Then(namedExpressionDefinitions(translation), translation)

(***************************************************************************)
(* SANITIZE                                                                *)
(***************************************************************************)
makeLiteralExpressionAst(value) == parseFragment(value)

RECURSIVE sanitize(_)
RECURSIVE sanitizeChildren(_)

\* the list of the outcome first followed by those of the outcome rest
Cons(first, rest) ==
    IF ~first.ok THEN first
    ELSE IF ~rest.ok THEN rest
    ELSE Ok(<<first.val>> \o rest.val)

\* children.map(sanitize)
sanitizeChildren(children) ==
    IF children = <<>> THEN Ok(<<>>)
    ELSE Cons(sanitize(children[1]), sanitizeChildren(Tail(children)))

\* safe.update('children', children => children.map(sanitize))
sanitizeChildrenOf(safe) == updateChildren(safe, sanitizeChildren(safe.children))

sanitizeJsxElement(ast) ==
    sanitizeChildrenOf(withSafeAttributesOnly(rewriteDesignationToNamespaceSyntax(ast)))

sanitizeJsxExpressionContainer(ast) ==
    IF ~canGenerate(ast.expression)
    THEN Throw(JsError(<<"escodegen: not an AST node">>))
    ELSE setExpression(ast,
             makeLiteralExpressionAst(nameAndExpressionForNamedExpression(ast.expression)[1]))

sanitize(ast) ==
    CASE ast.type \in {"Literal", "CallExpression", "XJSEmptyExpression"} -> Ok(ast)
      [] ast.type = "XJSElement" -> sanitizeJsxElement(ast)
      [] ast.type = "XJSExpressionContainer" -> sanitizeJsxExpressionContainer(ast)
      [] OTHER -> Throw(JsError(<<"TypeError: sanitize: no handler for the node type">>))

(***************************************************************************)
(* RECONSTITUTE                                                            *)
(***************************************************************************)
RECURSIVE _reconstitute(_, _)
RECURSIVE reconstituteChildren(_, _)

\* children.map(child => _reconstitute(child, definitions))
reconstituteChildren(children, definitions) ==
    IF children = <<>> THEN Ok(<<>>)
    ELSE Cons(_reconstitute(children[1], definitions),
              reconstituteChildren(Tail(children), definitions))

\* result.update('children', ...)
reconstituteChildrenOf(result, definitions) ==
    updateChildren(result, reconstituteChildren(result.children, definitions))

\* A merge that forgets the original's attributes.
translationAttributesOnly(originalAttributes, translationAttributes) == translationAttributes

\* The attributes of a designated element of the translation, given the
\* definition of its designation.
mergedAttributes(originalAttributes, translationAttributes) ==
    attributesFromMap(MapMerge(attributeMap(originalAttributes),
                               attributeMap(translationAttributes)))

\* reconstituteJsxElement of an element that carries the designation
reconstituteDesignated(translatedAst, definitions, designation) ==
    IF ~DefinitionsHas(definitions, designation)
    THEN Throw(InputError(<<"Translation contains designation '">> \o designation
                          \o <<"', which is not in the original.">>))
    ELSE IF DefinitionsGet(definitions, designation).type # "List"
    \* attributeMap of an expression node: a.get is not a function
    THEN Throw(JsError(<<"TypeError: a.get is not a function">>))
    ELSE reconstituteChildrenOf(
             removeDesignation(
                 updateAttributes(translatedAst,
                     mergedAttributes(DefinitionsGet(definitions, designation).items,
                                      attributes(translatedAst)))),
             definitions)

reconstituteJsxElement(translatedAst, definitions) ==
    IF hasUnsafeAttributes(translatedAst)
    THEN Throw(InputError(<<"Translation includes unsafe attribute: ">>
                          \o generateOpening(translatedAst)))
    ELSE IF componentDesignation(translatedAst) # Undefined
    THEN reconstituteDesignated(translatedAst, definitions, componentDesignation(translatedAst))
    ELSE reconstituteChildrenOf(translatedAst, definitions)

reconstituteJsxExpressionContainer(translatedAst, definitions) ==
    IF ~isNamedExpression(translatedAst.expression)
    THEN Throw(InputError(
             <<"Translated message has JSX expression that isn't a placeholder name: ">>
             \o generate(translatedAst)))
    ELSE IF ~DefinitionsHas(definitions, generate(translatedAst.expression))
    THEN Throw(InputError(
             <<"Translated message has a JSX expression whose name doesn't exist in the original: ">>
             \o generate(translatedAst)))
    ELSE Ok([translatedAst EXCEPT
                !.expression = DefinitionsGet(definitions, generate(translatedAst.expression))])

\* the dispatch on the type of the translated node
_reconstitute(translatedAst, definitions) ==
    CASE translatedAst.type \in {"Identifier", "Literal", "XJSEmptyExpression"} ->
           Ok(translatedAst)
      [] translatedAst.type = "XJSElement" -> reconstituteJsxElement(translatedAst, definitions)
      [] translatedAst.type = "XJSExpressionContainer" ->
           reconstituteJsxExpressionContainer(translatedAst, definitions)
      [] OTHER -> Throw(JsError(<<"TypeError: _reconstitute: no handler for the node type">>))

\* reconstitute, given the outcome of namedExpressionDefinitions(originalAst)
reconstituteWith(translatedAst, definitions) ==
    IF definitions.ok THEN _reconstitute(translatedAst, definitions.val) ELSE definitions

reconstitute(translatedAst, originalAst) ==
    reconstituteWith(translatedAst, namedExpressionDefinitions(originalAst))

(***************************************************************************)
(* KEYPATHS.  A keypath is a sequence of keys; the key of an array index i *)
(* (counted from 0, as in the code) is the string ToString(i).             *)
(***************************************************************************)
\* The keys of a node whose values are nodes or arrays, in the order in which
\* esprima-fb creates them (the order node.forEach visits them).
childKeys(node) ==
    CASE node.type = "Program" -> <<"body">>
      [] node.type \in {"ExpressionStatement", "XJSExpressionContainer"} -> <<"expression">>
      [] node.type = "CallExpression" -> <<"callee", "arguments">>
      [] node.type = "MemberExpression" -> <<"object", "property">>
      [] node.type = "XJSElement" ->
           IF node.closingElement = Null
           THEN <<"openingElement", "children">>
           ELSE <<"openingElement", "closingElement", "children">>
      [] node.type = "XJSOpeningElement" -> <<"name", "attributes">>
      [] node.type = "XJSClosingElement" -> <<"name">>
      [] node.type = "XJSNamespacedName" -> <<"namespace", "name">>
      [] node.type = "XJSAttribute" ->
           IF node.value = Null THEN <<"name">> ELSE <<"name", "value">>
      [] OTHER -> <<>>

arrayKeys == {"body", "arguments", "attributes", "children"}

indexKey(i) == ToString(i - 1)
isIndexKey(list, key) == \E i \in DOMAIN list : indexKey(i) = key
indexOfKey(list, key) == CHOOSE i \in DOMAIN list : indexKey(i) = key

\* ast.getIn(keypath)
RECURSIVE getIn(_, _)
getIn(ast, keypath) ==
    IF keypath = <<>> THEN ast
    ELSE IF keypath[1] \notin DOMAIN ast THEN Null
    ELSE IF Len(keypath) >= 2 /\ keypath[1] \in arrayKeys
         THEN IF indexOfKey(ast[keypath[1]], keypath[2]) \in DOMAIN ast[keypath[1]]
              THEN getIn(ast[keypath[1]][indexOfKey(ast[keypath[1]], keypath[2])],
                         SubSeq(keypath, 3, Len(keypath)))
              ELSE Null
         ELSE getIn(ast[keypath[1]], Tail(keypath))

\* A setIn whose result is dropped: the document stays as it was.
setNothing(ast, keypath, value) == ast

\* ast.setIn(keypath, value)
RECURSIVE setIn(_, _, _)
setIn(ast, keypath, value) ==
    IF keypath = <<>> THEN value
    ELSE IF Len(keypath) >= 2 /\ keypath[1] \in arrayKeys
         THEN LET i == indexOfKey(ast[keypath[1]], keypath[2])
              IN  [ast EXCEPT ![keypath[1]][i] =
                        setIn(@, SubSeq(keypath, 3, Len(keypath)), value)]
         ELSE [ast EXCEPT ![keypath[1]] = setIn(@, Tail(keypath), value)]

\* The keypaths below node, a node at keypath, in the order of f's pushes.
\* Only the keypaths of nodes are listed: the keypaths of arrays and of
\* scalars, which no marker pattern matches, are left out.
RECURSIVE keypathsBelow(_, _)
RECURSIVE keypathsOfKeys(_, _, _)
RECURSIVE keypathsOfItems(_, _, _)

keypathsOfItems(list, keypath, i) ==
    IF i > Len(list) THEN <<>>
    ELSE LET childKeypath == Append(keypath, indexKey(i))
         IN  <<childKeypath>> \o keypathsBelow(list[i], childKeypath)
             \o keypathsOfItems(list, keypath, i + 1)

keypathsOfKeys(node, keys, keypath) ==
    IF keys = <<>> THEN <<>>
    ELSE LET childKeypath == Append(keypath, keys[1])
         IN  (IF keys[1] \in arrayKeys
              THEN keypathsOfItems(node[keys[1]], childKeypath, 1)
              ELSE <<childKeypath>> \o keypathsBelow(node[keys[1]], childKeypath))
             \o keypathsOfKeys(node, Tail(keys), keypath)

keypathsBelow(node, keypath) == keypathsOfKeys(node, childKeys(node), keypath)

\* the keypaths of ast from the last pushed to the first
allKeypathsLastFirst(ast) ==
    [i \in DOMAIN keypathsBelow(ast, <<>>) |->
         keypathsBelow(ast, <<>>)[Len(keypathsBelow(ast, <<>>)) - i + 1]]

allKeypathsInAst(ast) == keypathsBelow(ast, <<>>)

(***************************************************************************)
(* TRANSLATING                                                             *)
(***************************************************************************)
\* The first string marker of keypaths with a bad argument list, if any.
RECURSIVE validateStringMarkers(_, _)
validateStringMarkers(ast, keypaths) ==
    IF keypaths = <<>> THEN Ok(keypaths)
    ELSE LET messageMarker == getIn(ast, keypaths[1])
         IN  IF isStringMarker(messageMarker) /\ Len(messageMarker.arguments) # 1
             THEN Throw(InputError(<<"Message marker must have exactly one argument: ">>
                                   \o generate(messageMarker)))
             ELSE IF isStringMarker(messageMarker)
                     /\ ~isStringLiteral(messageMarker.arguments[1])
             THEN Throw(InputError(<<"Message should be a string literal, but was instead: ">>
                                   \o generate(messageMarker)))
             ELSE validateStringMarkers(ast, Tail(keypaths))

keypathsForMessageNodesInAst(ast) ==
    LET keypaths == SelectSeq(allKeypathsInAst(ast), LAMBDA keypath : isMarker(getIn(ast, keypath)))
        checked == validateStringMarkers(ast, keypaths)
    IN  IF checked.ok THEN Ok(keypaths) ELSE checked

(***************************************************************************)
(* PRINTING AND UNPRINTING                                                 *)
(***************************************************************************)
generateJsxChild(ast) == IF isStringLiteral(ast) THEN ast.value ELSE generate(ast)

generateMessage(ast) ==
    IF isStringMarker(ast) THEN Ok(ast.arguments[1].value)
    ELSE IF isElementMarker(ast)
    THEN IF \A i \in DOMAIN ast.children : canGenerate(ast.children[i])
         THEN Ok(Join([i \in DOMAIN ast.children |-> generateJsxChild(ast.children[i])], <<>>))
         ELSE Throw(JsError(<<"escodegen: not an AST node">>))
    ELSE Throw(JsError(<<"Internal error: message is not string literal or JSX element">>))

\* JSON.stringify of a string without quotes or backslashes, or the string
\* between the marker's tags
prepareTranslationForParsing(translationString, originalAst) ==
    IF isStringMarker(originalAst) THEN <<"'">> \o translationString \o <<"'">>
    ELSE <<"<", "I18N", ">">> \o translationString \o <<"</", "I18N", ">">>

\* generateMessage applied to the outcome of sanitize
generateMessageOf(sanitized) ==
    IF sanitized.ok THEN generateMessage(sanitized.val) ELSE sanitized

\* generateMessage(sanitize(message)): the key of a message
messageKey(message) == generateMessageOf(sanitize(message))

\* The catch of substitute: an Immutable Map has set, an Error has not.
\* translation is the value of the variable of that name at the throw.
annotated(e, message, translation) ==
    IF isInputError(e)
    THEN MapSet(MapSet(e, "messageAst", message), "translationString", translation)
    ELSE e

\* The catch of extractMessages.
annotatedWithMessage(e, message) ==
    IF isInputError(e) THEN MapSet(e, "messageAst", message) ELSE e

\* A missing-translation error that leaves the key out.
translationMissingUnnamed(key) == InputError(<<"Translation missing">>)

\* The error of substitute for a key that has no translation.
translationMissing(key) == InputError(<<"Translation missing for:\n">> \o key)

\* The outcome of a statement that was not reached.
NotRun == [ok |-> FALSE, err |-> Null]

(***************************************************************************)
(* The inputs: source texts and translations.                              *)
(***************************************************************************)
MaxItems == 2
MaxDepth == 1
MaxStmts == 2

Quoted(text) == <<"'">> \o text \o <<"'">>
SelfClosing(head) == <<"<">> \o head \o <<"/>">>
Element(name, attrs, content) ==
    <<"<">> \o name \o attrs \o <<">">> \o content \o <<"</">> \o name \o <<">">>
StringMarker(text) == <<"i18n", "(">> \o Quoted(text) \o <<")">>
Placeholder(expression) == <<"{">> \o expression \o <<"}">>
Href(value) == <<"href", "=">> \o value
Target(value) == <<"target", "=">> \o value

Leaves ==
    { <<"Hello">>,
      Placeholder(<<"a">>),
      Placeholder(<<"a", ".", "b">>),
      Placeholder(<<"a", "[", "b", "]">>),
      Placeholder(StringMarker(<<"Hello">>)) }

\* opening tags: <<name, attributes>>
Heads ==
    { << <<"b">>, <<>> >>,
      << <<"a">>, Href(Quoted(<<"x">>)) >>,
      << <<"a", ":", "foo">>, Href(Quoted(<<"x">>)) \o Target(Quoted(<<"y">>)) >>,
      << <<"a">>, <<"i18n-designation", "=">> \o Quoted(<<"foo">>) \o Target(Quoted(<<"y">>)) >>,
      << <<"a">>, Target(Quoted(<<"y">>)) >>,
      << <<"a", ":", "foo">>, Href(Quoted(<<"x">>)) >>,
      << <<"b", ":", "foo">>, Href(Quoted(<<"x">>)) >>,
      << <<"a", ":", "foo">>, Target(Placeholder(StringMarker(<<"Hello">>))) >>,
      << <<"a">>, Href(Placeholder(StringMarker(<<"Hello">>))) >>,
      << <<"a">>, Href(Placeholder(<<"a", "[", "b", "]">>)) >> }

Wrappers ==
    { << <<"b">>, <<>> >>,
      << <<"a", ":", "foo">>, Target(Quoted(<<"y">>)) >>,
      << <<"I18N">>, <<>> >> }

\* the items that occur beside any other item of a message
Common ==
    { <<"Hello">>,
      Placeholder(<<"a">>),
      SelfClosing(<<"a", ":", "foo">> \o Href(Quoted(<<"x">>)) \o Target(Quoted(<<"y">>))) }

Items0 == Leaves \cup {SelfClosing(h[1] \o h[2]) : h \in Heads}

\* the items nested at most d deep
RECURSIVE Nested(_)
Nested(d) ==
    IF d = 0 THEN Items0
    ELSE Nested(d - 1) \cup {Element(w[1], w[2], x) : w \in Wrappers, x \in Nested(d - 1)}

\* at most n items of Common
RECURSIVE CommonContents(_)
CommonContents(n) ==
    IF n = 0 THEN {<<>>}
    ELSE CommonContents(n - 1) \cup {c \o x : c \in CommonContents(n - 1), x \in Common}

\* at most n items, at most one of them outside Common
RECURSIVE Flat(_)
Flat(n) ==
    IF n = 0 THEN {<<>>}
    ELSE Flat(n - 1) \cup {c \o x : c \in Flat(n - 1), x \in Common}
                     \cup {c \o x : c \in CommonContents(n - 1), x \in Items0}

\* an item of Common beside one nested in a plain element
Mixed == {x \o Element(<<"b">>, <<>>, y) : x \in Common, y \in Nested(MaxDepth - 1) \cap Common}

\* a message inside an element of a message
Inner == {Element(<<"b">>, <<>>, Element(<<"I18N">>, <<>>, <<"Hello">>))}

ElementMessages ==
    {Element(<<"I18N">>, <<>>, c) :
         c \in (Flat(MaxItems) \cup Nested(MaxDepth) \cup Mixed \cup Inner) \ {<<>>}}

StringMessages ==
    { StringMarker(<<"Hello">>), <<"i18n", "(", ")">>, <<"i18n", "(", "a", ")">> }

\* the statements that follow the first one of a document
Following ==
    { StringMarker(<<"Hello">>), <<"i18n", "(", ")">>,
      Element(<<"I18N">>, <<>>, Placeholder(<<"a">>)) }

First ==
    { StringMarker(<<"Hello">>), Element(<<"I18N">>, <<>>, <<"Hello">>),
      Element(<<"I18N">>, <<>>, Placeholder(<<"a">>)),
      Element(<<"I18N">>, <<>>,
              SelfClosing(<<"a">> \o Href(Placeholder(StringMarker(<<"Hello">>))))) }

\* at most n statements
RECURSIVE Statements(_)
Statements(n) ==
    IF n <= 1 THEN {m \o <<";">> : m \in ElementMessages \cup StringMessages}
    ELSE Statements(n - 1)
         \cup {m \o <<";">> \o t : m \in First, t \in Statements(n - 1) \cap
                                     {f \o <<";">> \o r : f \in Following, r \in {<<>>} \cup Statements(n - 2)}}

Sources == Statements(MaxStmts)

PlainTranslations == { <<"Bonjour">> }

MarkupTranslations ==
    { <<"Bonjour">>,
      Element(<<"i">>, <<>>, <<"Bonjour">> \o Element(<<"a", ":", "foo">>, Href(Quoted(<<"z">>)),
                                                      Placeholder(<<"a">>))),
      Element(<<"i">>, <<>>, Placeholder(<<"zzz">>)),
      Element(<<"i">>, <<>>, SelfClosing(<<"b", ":", "bar">>)),
      Placeholder(<<"a">>) \o Placeholder(<<"zzz">>)
          \o Element(<<"i">>, <<>>, Placeholder(<<"zzz">>) \o Placeholder(<<"a">>)),
      SelfClosing(<<"a">> \o Target(Quoted(<<"y">>))),
      Placeholder(<<"foo">>),
      Element(<<"b", ":", "a">>, <<>>, SelfClosing(<<"b", ":", "bar">>)),
      SelfClosing(<<"a", "i18n-designation", "=">> \o Quoted(<<"foo">>)),
      <<"<", "i", ">">> }

isPlain(text) == \A i \in DOMAIN text : text[i] \notin Punctuation

\* The entries that the translations table may hold for key: none, the key
\* itself (the identity translation) or one of the translations above.
EntriesFor(key) ==
    {Undefined, key} \cup (IF isPlain(key) THEN PlainTranslations ELSE MarkupTranslations)

(***************************************************************************)
(* The program: extractMessages(src), then translateMessages(src,          *)
(* translations).  The translations table is an input that is fixed before *)
(* the call; translations holds the entries read so far, and an entry is   *)
(* chosen when it is first read.                                           *)
(***************************************************************************)
VARIABLES
    src,            \* the source text
    translations,   \* the entries of the translations table read so far
    pc,             \* the statement in execution
    ast,            \* the document, partially rewritten
    keypaths,       \* the message keypaths
    index,          \* extractMessages: messages mapped; translateMessages: keypaths left
    messages,       \* extractMessages: the keys mapped so far
    extracted,      \* the outcome of extractMessages
    translated,     \* the outcome of translateMessages
    calls           \* the calls of substitute so far

vars == <<src, translations, pc, ast, keypaths, index, messages, extracted, translated, calls>>

Pending == [state |-> "pending", value |-> <<>>, error |-> Null]
Returned(value) == [state |-> "returned", value |-> value, error |-> Null]
Thrown(error) == [state |-> "thrown", value |-> <<>>, error |-> error]

Init ==
    /\ src \in Sources
    /\ translations = <<>>
    /\ pc = "extractMessages"
    /\ ast = Null
    /\ keypaths = <<>>
    /\ index = 0
    /\ messages = <<>>
    /\ extracted = Pending
    /\ translated = Pending
    /\ calls = <<>>

\* extractMessages: parse(src) and keypathsForMessageNodesInAst(ast)
ExtractMessages ==
    /\ pc = "extractMessages"
    /\ \E parsed \in {parse(src)} :
       \E found \in {IF parsed.ok THEN keypathsForMessageNodesInAst(parsed.val) ELSE NotRun} :
           IF ~parsed.ok
           THEN /\ extracted' = Thrown(parsed.err)
                /\ pc' = "translateMessages"
                /\ UNCHANGED <<ast, keypaths>>
           ELSE IF ~found.ok
           THEN /\ extracted' = Thrown(found.err)
                /\ pc' = "translateMessages"
                /\ ast' = parsed.val
                /\ UNCHANGED keypaths
           ELSE /\ ast' = parsed.val
                /\ keypaths' = found.val
                /\ pc' = "extractMessages.map"
                /\ UNCHANGED extracted
    /\ index' = 0
    /\ UNCHANGED <<src, translations, messages, translated, calls>>

\* extractMessages: the map over the messages, one message at a step, and
\* the return of the keys
ExtractMessagesMap ==
    /\ pc = "extractMessages.map"
    /\ IF index = Len(keypaths)
       THEN /\ extracted' = Returned(messages)
            /\ pc' = "translateMessages"
            /\ UNCHANGED <<index, messages>>
       ELSE \E message \in {getIn(ast, keypaths[index + 1])} :
            \E validated \in {validateMessage(message)} :
            \E key \in {IF validated.ok THEN messageKey(validated.val) ELSE validated} :
                IF key.ok
                THEN /\ messages' = Append(messages, key.val)
                     /\ index' = index + 1
                     /\ UNCHANGED <<extracted, pc>>
                ELSE /\ extracted' = Thrown(annotatedWithMessage(key.err, message))
                     /\ pc' = "translateMessages"
                     /\ UNCHANGED <<index, messages>>
    /\ UNCHANGED <<src, translations, ast, keypaths, translated, calls>>

\* translateMessages: parse(src) and, in translateMessagesInAst,
\* keypathsForMessageNodesInAst(ast)
TranslateMessages ==
    /\ pc = "translateMessages"
    /\ \E parsed \in {parse(src)} :
       \E found \in {IF parsed.ok THEN keypathsForMessageNodesInAst(parsed.val) ELSE NotRun} :
           IF ~parsed.ok
           THEN /\ translated' = Thrown(parsed.err)
                /\ pc' = "done"
                /\ UNCHANGED <<ast, keypaths, index>>
           ELSE IF ~found.ok
           THEN /\ translated' = Thrown(found.err)
                /\ pc' = "done"
                /\ ast' = parsed.val
                /\ UNCHANGED <<keypaths, index>>
           ELSE /\ ast' = parsed.val
                /\ keypaths' = found.val
                /\ index' = Len(found.val)
                /\ pc' = "substitute"
                /\ UNCHANGED translated
    /\ UNCHANGED <<src, translations, messages, extracted, calls>>

\* keypaths.reduce: the keypaths visited in document order
reduce(list, left) == list[Len(list) - left + 1]

\* keypaths.reduceRight: the keypath visited when left keypaths are left
reduceRight(list, left) == list[left]

\* The step of a call of substitute that threw, or "return".
stageOf(key, translation, parsed, validated, reconstituted) ==
    IF ~key.ok THEN "sanitize"
    ELSE IF translation = Undefined THEN "lookup"
    ELSE IF ~parsed.ok THEN "parse"
    ELSE IF ~validated.ok THEN "validateTranslation"
    ELSE IF ~reconstituted.ok THEN "reconstitute"
    ELSE "return"

\* keypaths.reduceRight(substitute, ast): one call of substitute.  The
\* statements of its try block are bound in their order; translation is
\* translations[key], prepared is the value to which line 649 reassigns
\* translation.
Substitute ==
    /\ pc = "substitute"
    /\ index > 0
    /\ \E keypath \in {reduceRight(keypaths, index)} :
       \E message \in {getIn(ast, keypath)} :
       \E key \in {messageKey(message)} :
       \E translation \in (IF ~key.ok THEN {Undefined}
                           ELSE IF DefinitionsHas(translations, key.val)
                           THEN {DefinitionsGet(translations, key.val)}
                           ELSE EntriesFor(key.val)) :
       \E prepared \in {IF translation = Undefined THEN Undefined
                        ELSE prepareTranslationForParsing(translation, message)} :
       \E parsed \in {IF translation = Undefined THEN NotRun ELSE parseFragment(prepared)} :
       \E validated \in {IF parsed.ok THEN validateTranslation(parsed.val, message)
                         ELSE NotRun} :
       \E reconstituted \in {IF validated.ok THEN reconstitute(validated.val, message)
                             ELSE NotRun} :
       \E stage \in {stageOf(key, translation, parsed, validated, reconstituted)} :
       \E e \in {CASE stage = "sanitize" -> key.err
                   [] stage = "lookup" -> translationMissing(key.val)
                   [] stage = "parse" -> parsed.err
                   [] stage = "validateTranslation" -> validated.err
                   [] stage = "reconstitute" -> reconstituted.err
                   [] stage = "return" -> Null} :
           /\ calls' = Append(calls,
                  [keypath |-> keypath, message |-> message, stage |-> stage,
                   key |-> IF key.ok THEN key.val ELSE <<>>,
                   translation |-> translation,
                   parsed |-> IF parsed.ok THEN parsed.val ELSE Null,
                   result |-> IF stage = "return" THEN reconstituted.val ELSE Null,
                   error |-> IF stage = "return" THEN Null
                             ELSE annotated(e, message, prepared)])
           /\ translations' = IF key.ok THEN MapPut(translations, key.val, translation)
                              ELSE translations
           /\ IF stage = "return"
              THEN /\ ast' = setIn(ast, keypath, reconstituted.val)
                   /\ index' = index - 1
                   /\ UNCHANGED <<pc, translated>>
              ELSE /\ translated' = Thrown(annotated(e, message, prepared))
                   /\ pc' = "done"
                   /\ UNCHANGED <<ast, index>>
    /\ UNCHANGED <<src, keypaths, messages, extracted>>

\* translateMessages: generate(...) of the rewritten document
Generate ==
    /\ pc = "substitute"
    /\ index = 0
    /\ translated' = IF canGenerate(ast) THEN Returned(generate(ast))
                     ELSE Thrown(JsError(<<"escodegen: not an AST node">>))
    /\ pc' = "done"
    /\ UNCHANGED <<src, translations, ast, keypaths, index, messages, extracted, calls>>

Next ==
    \/ ExtractMessages
    \/ ExtractMessagesMap
    \/ TranslateMessages
    \/ Substitute
    \/ Generate

Spec == Init /\ [][Next]_vars

(***************************************************************************)
(* Properties.                                                             *)
(***************************************************************************)
\* the keypaths of the nodes of a tree, its root included
NodePaths(node) == << <<>> >> \o allKeypathsInAst(node)

\* the elements of a tree
ElementsOf(node) ==
    {e \in {getIn(node, NodePaths(node)[j]) : j \in DOMAIN NodePaths(node)} :
         e.type = "XJSElement"}

\* the hidden attributes of the elements of message that carry designation
HiddenAttributesDesignated(message, designation) ==
    UNION {Range(hiddenAttributesOf(e)) :
               e \in {x \in ElementsOf(message) : componentDesignation(x) = designation}}

HasAttribute(element, name, value) ==
    \E a \in Range(attributes(element)) : attributeName(a) = name /\ a.value = value

HasAttributeNamed(element, name) ==
    \E a \in Range(attributes(element)) : attributeName(a) = name

IsDesignatedIn(t, definitions) ==
    /\ t.type = "XJSElement"
    /\ t.openingElement.name.type = "XJSNamespacedName"
    /\ DefinitionsHas(definitions, componentDesignation(t))

\* The four parts of the merge for the element t of the translation and the
\* node r at its place in the tree that reconstitute returned; the hidden
\* attributes named in reserved are exempt from the first part.
Merged(message, definitions, t, r, reserved) ==
    /\ r.type = "XJSElement"
    /\ \A h \in HiddenAttributesDesignated(message, componentDesignation(t)) :
           \/ attributeName(h) \in reserved
           \/ HasAttributeNamed(t, attributeName(h))
           \/ HasAttribute(r, attributeName(h), h.value)
    /\ \A a \in Range(attributes(t)) : HasAttribute(r, attributeName(a), a.value)
    /\ r.openingElement.name = t.openingElement.name.namespace
    /\ r.openingElement.name.type = "XJSIdentifier"
    /\ IF t.closingElement = Null THEN r.closingElement = Null
       ELSE r.closingElement.name = t.openingElement.name.namespace
    /\ reconstituteChildren(t.children, definitions) = Ok(r.children)

\* An element of the translation without designation keeps its tags.
Kept(t, r) ==
    /\ r.type = "XJSElement"
    /\ r.openingElement = t.openingElement
    /\ r.closingElement = t.closingElement

MergeHolds(c, reserved) ==
    \A j \in DOMAIN NodePaths(c.parsed) :
        LET t == getIn(c.parsed, NodePaths(c.parsed)[j])
            r == getIn(c.result, NodePaths(c.parsed)[j])
            definitions == namedExpressionDefinitions(c.message).val
        IN  /\ IsDesignatedIn(t, definitions)
                => Merged(c.message, definitions, t, r, reserved)
            /\ (t.type = "XJSElement" /\ componentDesignation(t) = Undefined) => Kept(t, r)

\* C1 (as amended): whenever reconstitute returns, every element of the
\* translation that carries, in namespace form, a designation d defined by
\* the original message is, at its place in the returned tree, an element
\* that (1) has every hidden attribute of the original element designated d
\* with its original value, unless the translator supplied an attribute of
\* that name or the attribute is the i18n-designation attribute itself, (2)
\* has every attribute the translator wrote with the translator's value, (3)
\* has the plain component name in the opening and the closing tag, and (4)
\* has the children of the translated element reconstituted with the same
\* definitions; the elements without designation keep their tags.
C1_ReconstituteMerge ==
    \A i \in DOMAIN calls :
        calls[i].stage = "return" => MergeHolds(calls[i], {<<"i18n-designation">>})

\* C1 as stated: no hidden attribute is exempt.
C1_AsStated ==
    \A i \in DOMAIN calls : calls[i].stage = "return" => MergeHolds(calls[i], {})

\* A call returned for a translation with a designated element that has
\* children and an attribute of its own and gets a hidden attribute back.
C1_Witness ==
    \E i \in DOMAIN calls :
        /\ calls[i].stage = "return"
        /\ \E t \in ElementsOf(calls[i].parsed) :
               /\ IsDesignatedIn(t, namedExpressionDefinitions(calls[i].message).val)
               /\ attributes(t) # <<>>
               /\ t.children # <<>>
               /\ \E h \in HiddenAttributesDesignated(calls[i].message, componentDesignation(t)) :
                      ~HasAttributeNamed(t, attributeName(h))

\* the nodes of a tree, its root included
NodesOf(node) == {getIn(node, NodePaths(node)[j]) : j \in DOMAIN NodePaths(node)}

\* the text t occurs in the text s
Contains(s, t) == \E i \in 0..(Len(s) - Len(t)) : SubSeq(s, i + 1, i + Len(t)) = t

\* the keypath p is a proper prefix of the keypath k
Above(p, k) == Len(p) < Len(k) /\ SubSeq(k, 1, Len(p)) = p

\* the keypath k as seen from the node at its prefix p
Below(p, k) == SubSeq(k, Len(p) + 1, Len(k))

\* the document as parse(src) returned it
Original == parse(src).val

(***************************************************************************)
(* C2                                                                      *)
(***************************************************************************)
NoHiddenAttributes(m) == \A e \in ElementsOf(m) : hiddenAttributesOf(e) = <<>>

NoExpressionContainers(m) == \A n \in NodesOf(m) : n.type # "XJSExpressionContainer"

\* C2: for every element-marker message that passes validateMessage and has
\* no hidden attribute and no expression container, the call of substitute
\* whose translation is the message's own key (the printed form of the
\* sanitized message) returns, and the printed form of the tree that
\* reconstitute returned is the printed form of the message.
C2_IdentityRoundTrip ==
    \A i \in DOMAIN calls :
        ( /\ isElementMarker(calls[i].message)
          /\ validateMessage(calls[i].message).ok
          /\ NoHiddenAttributes(calls[i].message)
          /\ NoExpressionContainers(calls[i].message)
          /\ calls[i].stage # "sanitize"
          /\ calls[i].translation = calls[i].key )
        => /\ calls[i].stage = "return"
           /\ generate(calls[i].result) = generate(calls[i].message)

(***************************************************************************)
(* C3                                                                      *)
(***************************************************************************)
\* the keypaths at which a call of substitute has rewritten the document
Rewritten == {calls[i].keypath : i \in {j \in DOMAIN calls : calls[j].stage = "return"}}

\* the message keypaths that no call of substitute has visited
PendingKeypaths ==
    {keypaths[j] : j \in DOMAIN keypaths} \ {calls[i].keypath : i \in DOMAIN calls}

\* node with null in the place of the node at keypath, if there is one
RECURSIVE maskIn(_, _)
maskIn(node, keypath) ==
    IF keypath = <<>> THEN Null
    ELSE IF keypath[1] \notin DOMAIN node THEN node
    ELSE IF keypath[1] \in arrayKeys
         THEN IF Len(keypath) >= 2 /\ isIndexKey(node[keypath[1]], keypath[2])
              THEN [node EXCEPT ![keypath[1]][indexOfKey(node[keypath[1]], keypath[2])] =
                        maskIn(@, SubSeq(keypath, 3, Len(keypath)))]
              ELSE node
         ELSE [node EXCEPT ![keypath[1]] = maskIn(@, Tail(keypath))]

\* node with null in the place of each of the nodes at the keypaths of list
RECURSIVE maskAll(_, _)
maskAll(node, list) ==
    IF list = <<>> THEN node ELSE maskAll(maskIn(node, list[1]), Tail(list))

\* the rewritten keypaths below k, as seen from the node at k
RewrittenBelow(k) ==
    LET below == SelectSeq(keypaths, LAMBDA d : Above(k, d) /\ d \in Rewritten)
    IN  [j \in DOMAIN below |-> Below(k, below[j])]

\* C3: in every state of translateMessagesInAst, for every message keypath k
\* that substitute has not visited yet, the node at k in the document is a
\* message marker and is, outside the descendants that were rewritten, the
\* node at k in the document as it was parsed.
C3_KeypathStability ==
    pc \in {"substitute", "done"} =>
        \A k \in PendingKeypaths :
            /\ isMarker(getIn(ast, k))
            /\ maskAll(getIn(ast, k), RewrittenBelow(k))
                   = maskAll(getIn(Original, k), RewrittenBelow(k))

\* An iteration at which a pending message holds a message that was
\* rewritten to something else, and another pending message precedes it.
C3_Witness ==
    /\ pc = "substitute"
    /\ \E k \in PendingKeypaths :
           /\ RewrittenBelow(k) # <<>>
           /\ getIn(ast, k) # getIn(Original, k)
           /\ \E k2 \in PendingKeypaths : k2 # k /\ ~Above(k2, k)

(***************************************************************************)
(* C4                                                                      *)
(***************************************************************************)
\* the call j rewrote a message nested in the message of the call i, with no
\* message between the two
DirectlyNested(i, j) ==
    /\ Above(calls[i].keypath, calls[j].keypath)
    /\ \A n \in DOMAIN keypaths :
           ~(Above(calls[i].keypath, keypaths[n]) /\ Above(keypaths[n], calls[j].keypath))

\* The node at keypath in message is in no attribute that sanitize removes.
Shown(message, keypath) ==
    \A n \in 3..Len(keypath) :
        (keypath[n - 2] = "openingElement" /\ keypath[n - 1] = "attributes")
        => attributeIsSafe(componentName(getIn(message, SubSeq(keypath, 1, n - 3))),
                           getIn(message, SubSeq(keypath, 1, n)))

\* the text of a rewritten message as the key of a message around it shows it
InnerText(result) == generate(sanitize(result).val)

InnerBeforeOuter(everywhere) ==
    /\ \A i \in DOMAIN calls :
           /\ calls[i].keypath = keypaths[Len(keypaths) - i + 1]
           /\ \/ calls[i].message = getIn(Original, calls[i].keypath)
              \/ \E j \in 1..(i - 1) : Above(calls[i].keypath, calls[j].keypath)
    /\ \A i \in DOMAIN calls : \A n \in DOMAIN keypaths :
           Above(calls[i].keypath, keypaths[n])
           => \E j \in 1..(i - 1) : calls[j].keypath = keypaths[n] /\ calls[j].stage = "return"
    /\ \A i \in DOMAIN calls : \A j \in 1..(i - 1) :
           DirectlyNested(i, j)
           => /\ getIn(calls[i].message, Below(calls[i].keypath, calls[j].keypath))
                    = calls[j].result
              /\ ( /\ calls[i].stage # "sanitize"
                   /\ \/ everywhere
                      \/ Shown(calls[i].message, Below(calls[i].keypath, calls[j].keypath)) )
                 => ( /\ sanitize(calls[j].result).ok
                      /\ Contains(calls[i].key, InnerText(calls[j].result)) )

\* C4 (as amended): substitute is called on the message keypaths in the
\* exact reverse of the order of keypathsForMessageNodesInAst; when it is
\* called on a message, every message nested in it has been visited and
\* rewritten, the fetched message holds, in the place of each message
\* directly nested in it, the tree that reconstitute returned for that
\* message, and the key, when one is computed for the outer message,
\* contains the printed sanitized form of that tree, provided the inner
\* message is not inside an attribute that sanitize removes.
C4_InnerBeforeOuter == InnerBeforeOuter(FALSE)

\* C4 as stated: the key contains the inner text wherever the inner message is.
C4_AsStated == InnerBeforeOuter(TRUE)

\* An outer message is processed after a message nested in a part of it that
\* the key shows, and the inner translation is not the inner key.
C4_Witness ==
    \E i \in DOMAIN calls : \E j \in 1..(i - 1) :
        /\ DirectlyNested(i, j)
        /\ Shown(calls[i].message, Below(calls[i].keypath, calls[j].keypath))
        /\ calls[j].translation # calls[j].key
        /\ calls[i].stage # "sanitize"
        /\ ~Contains(calls[i].key, calls[j].key)

(***************************************************************************)
(* C5                                                                      *)
(***************************************************************************)
\* The translated tree has an element whose designation, or an expression
\* container whose printed expression, is no key of definitions.
HasUnknownName(translatedAst, definitions) ==
    \E n \in NodesOf(translatedAst) :
        \/ /\ n.type = "XJSElement"
           /\ componentDesignation(n) # Undefined
           /\ ~DefinitionsHas(definitions, componentDesignation(n))
        \/ /\ n.type = "XJSExpressionContainer"
           /\ canGenerate(n.expression)
           /\ ~DefinitionsHas(definitions, generate(n.expression))

\* C5: for every parsed translation that holds, at any depth, a designation
\* or a placeholder name that the definitions of the original message do
\* not have, reconstitute raises an input error.
C5_UnknownNameIsInputError ==
    \A i \in DOMAIN calls :
        ( /\ calls[i].parsed # Null
          /\ namedExpressionDefinitions(calls[i].message).ok
          /\ HasUnknownName(calls[i].parsed, namedExpressionDefinitions(calls[i].message).val) )
        => /\ ~reconstitute(calls[i].parsed, calls[i].message).ok
           /\ isInputError(reconstitute(calls[i].parsed, calls[i].message).err)

(***************************************************************************)
(* C6                                                                      *)
(***************************************************************************)
\* C6: whenever the key computed for a message has no entry in the
\* translations table, translateMessages throws an input error whose
\* description contains the key, and returns no document.
C6_MissingTranslation ==
    \A i \in DOMAIN calls :
        (calls[i].stage # "sanitize" /\ calls[i].translation = Undefined)
        => /\ calls[i].stage = "lookup"
           /\ i = Len(calls)
           /\ pc = "done"
           /\ translated.state = "thrown"
           /\ isInputError(translated.error)
           /\ Contains(translated.error.description, calls[i].key)
           /\ calls[i].key = generateMessage(sanitize(calls[i].message).val).val

\* A key of several lexemes was computed and the table has no entry for it.
C6_Witness ==
    \E i \in DOMAIN calls :
        /\ calls[i].stage = "lookup"
        /\ Len(calls[i].key) > 1
        /\ i > 1

(***************************************************************************)
(* C7                                                                      *)
(***************************************************************************)
\* C7: for every message on which validateMessage raises an input error,
\* substitute raises an input error before it looks the message's key up.
C7_ValidationBeforeLookup ==
    \A i \in DOMAIN calls :
        (~validateMessage(calls[i].message).ok
         /\ isInputError(validateMessage(calls[i].message).err))
        => /\ calls[i].stage = "sanitize"
           /\ isInputError(calls[i].error)

(***************************************************************************)
(* C8                                                                      *)
(***************************************************************************)
\* the expression containers of a tree hold named expressions only
OnlyNamedExpressions(m) ==
    \A n \in NodesOf(m) : n.type = "XJSExpressionContainer" => isNamedExpression(n.expression)

\* C8: extractMessages returns a key only for messages whose expression
\* containers, at any depth, hold named expressions.
C8_OnlyNamedExpressions ==
    \A j \in DOMAIN messages :
        (pc = "extractMessages.map" \/ extracted.state = "returned")
        => OnlyNamedExpressions(getIn(Original, keypaths[j]))

(***************************************************************************)
(* C9                                                                      *)
(***************************************************************************)
\* the values that occur twice in list
Repeated(list) == {list[i] : i \in {j \in DOMAIN list : \E n \in 1..(j - 1) : list[n] = list[j]}}

\* the names that _namedExpressionDefinitions emits twice for the tree
RepeatedNames(tree) ==
    IF _namedExpressionDefinitions(tree).ok
    THEN Repeated(names(_namedExpressionDefinitions(tree).val))
    ELSE {}

\* namedExpressionDefinitions raises the input error that lists every name
\* emitted twice for the tree, if there is one.
DuplicatesRejected(tree) ==
    RepeatedNames(tree) # {}
    => /\ ~namedExpressionDefinitions(tree).ok
       /\ isInputError(namedExpressionDefinitions(tree).err)
       /\ \A name \in RepeatedNames(tree) :
              Contains(namedExpressionDefinitions(tree).err.description, name)

\* C9: for every message and every parsed translation for which the
\* definitions are emitted and a name is emitted twice, at any depth,
\* namedExpressionDefinitions raises an input error that lists every
\* repeated name; extractMessages produces no key for such a message, and
\* substitute rejects such a translation in validateTranslation, before
\* reconstitute runs.
C9_DuplicateNames ==
    /\ \A j \in DOMAIN keypaths :
           /\ DuplicatesRejected(getIn(Original, keypaths[j]))
           /\ ( /\ pc = "extractMessages.map" \/ extracted.state = "returned"
                /\ RepeatedNames(getIn(Original, keypaths[j])) # {} )
              => ( /\ Len(messages) < j
                   /\ extracted.state # "returned" )
    /\ ( /\ extracted.state = "thrown"
         /\ pc = "translateMessages"
         /\ index < Len(keypaths)
         /\ RepeatedNames(getIn(Original, keypaths[index + 1])) # {} )
       => ( /\ isInputError(extracted.error)
            /\ \A name \in RepeatedNames(getIn(Original, keypaths[index + 1])) :
                   Contains(extracted.error.description, name) )
    /\ \A i \in DOMAIN calls :
           /\ DuplicatesRejected(calls[i].message)
           /\ calls[i].parsed # Null
              => ( /\ DuplicatesRejected(calls[i].parsed)
                   /\ RepeatedNames(calls[i].parsed) # {}
                      => ( /\ calls[i].stage = "validateTranslation"
                           /\ isInputError(calls[i].error)
                           /\ \A name \in RepeatedNames(calls[i].parsed) :
                                  Contains(calls[i].error.description, name) ) )

\* A translation that repeats two names, one of them inside an element, was
\* rejected, after extractMessages threw on a message that repeats a name.
C9_Witness ==
    /\ extracted.state = "thrown"
    /\ \E j \in DOMAIN keypaths : RepeatedNames(getIn(Original, keypaths[j])) # {}
    /\ \E i \in DOMAIN calls :
           /\ calls[i].parsed # Null
           /\ Cardinality(RepeatedNames(calls[i].parsed)) = 2
           /\ calls[i].stage = "validateTranslation"

(***************************************************************************)
(* C10                                                                     *)
(***************************************************************************)
\* C10: every input error of a call of substitute carries the message of
\* the call and, when the table had a translation for its key, that
\* translation as the table holds it; every input error of extractMessages
\* carries a message.
C10_ErrorContext ==
    /\ \A i \in DOMAIN calls :
           (calls[i].stage # "return" /\ isInputError(calls[i].error))
           => /\ "messageAst" \in DOMAIN calls[i].error
              /\ calls[i].error.messageAst = calls[i].message
              /\ (calls[i].translation # Undefined
                  => calls[i].error.translationString = calls[i].translation)
    /\ (extracted.state = "thrown" /\ isInputError(extracted.error))
       => "messageAst" \in DOMAIN extracted.error

(***************************************************************************)
(* C11                                                                     *)
(***************************************************************************)
\* the keys of the nodes, in the order in which the source text shows the
\* parts of a node
SourceKeys ==
    <<"body", "expression", "callee", "arguments", "object", "namespace", "name", "property",
      "attributes", "value", "openingElement", "children", "closingElement">>

\* the keys of the nodes followed by the keys of the items of an array
KeyOrder == SourceKeys \o [i \in 1..20 |-> indexKey(i)]

\* the place of a key among its siblings in the source text
SourceRank(key) == CHOOSE n \in DOMAIN KeyOrder : KeyOrder[n] = key

\* the first place at which the keypaths k1 and k2 differ
FirstDifference(k1, k2) ==
    CHOOSE n \in 1..(Len(k1) + 1) :
        /\ \A i \in 1..(n - 1) : i <= Len(k2) /\ k1[i] = k2[i]
        /\ n > Len(k1) \/ n > Len(k2) \/ k1[n] # k2[n]

\* The node at k1 starts before the node at k2 in the source text and does
\* not hold it.
SourceBefore(k1, k2) ==
    /\ ~Above(k1, k2) /\ ~Above(k2, k1) /\ k1 # k2
    /\ SourceRank(k1[FirstDifference(k1, k2)]) < SourceRank(k2[FirstDifference(k1, k2)])

\* the keypaths of the markers of document, whose nodes are at the keypaths paths
MarkerKeypaths(document, paths) ==
    {k \in {paths[n] : n \in DOMAIN paths} : isMarker(getIn(document, k))}

\* C11: when keypathsForMessageNodesInAst returns, the keypaths are exactly
\* those of the nodes that isMarker matches, each once, with the keypath of
\* every message before the keypaths of the messages nested in it and
\* otherwise in the order of the source text; the keys that extractMessages
\* has mapped, and those it returns, are the keys of the messages at these
\* keypaths in that order.
C11_MessageOrder ==
    LET parsed == parse(src)
        markers == MarkerKeypaths(parsed.val, NodePaths(parsed.val))
    IN  (pc # "extractMessages" /\ parsed.ok /\ keypathsForMessageNodesInAst(parsed.val).ok)
        => /\ {keypaths[n] : n \in DOMAIN keypaths} = markers
           /\ Len(keypaths) = Cardinality(markers)
           /\ \A i, j \in DOMAIN keypaths :
                  /\ Above(keypaths[i], keypaths[j]) => i < j
                  /\ SourceBefore(keypaths[i], keypaths[j]) => i < j
           /\ Len(messages) <= Len(keypaths)
           /\ \A j \in DOMAIN messages :
                  messages[j] = messageKey(getIn(parsed.val, keypaths[j])).val
           /\ extracted.state = "returned"
              => (extracted.value = messages /\ Len(messages) = Len(keypaths))

\* extractMessages returned the keys of a message, of a message nested in
\* it and of a message that follows both.
C11_Witness ==
    /\ extracted.state = "returned"
    /\ \E i, j, n \in DOMAIN keypaths :
           /\ Above(keypaths[i], keypaths[j])
           /\ SourceBefore(keypaths[j], keypaths[n])
           /\ extracted.value[i] # extracted.value[j]

(***************************************************************************)
(* C12                                                                     *)
(***************************************************************************)
\* the tree with the designation of every element in namespace syntax
RECURSIVE namespaceForm(_)
namespaceForm(node) ==
    IF node.type = "XJSElement"
    THEN rewriteDesignationToNamespaceSyntax(
             [node EXCEPT !.children = [n \in DOMAIN node.children |->
                                            namespaceForm(node.children[n])]])
    ELSE node

HasDesignationAttribute(tree) ==
    \E e \in ElementsOf(tree) : HasAttributeNamed(e, <<"i18n-designation">>)

\* C12: for every parsed translation with an element that carries its
\* designation in the i18n-designation attribute, reconstitute does what it
\* does for the same translation with the designations in namespace form.
C12_DesignationAttribute ==
    \A i \in DOMAIN calls :
        (calls[i].parsed # Null /\ HasDesignationAttribute(calls[i].parsed))
        => LET asWritten == reconstitute(calls[i].parsed, calls[i].message)
               asNamespace == reconstitute(namespaceForm(calls[i].parsed), calls[i].message)
           IN  /\ asWritten.ok = asNamespace.ok
               /\ asWritten.ok => asWritten.val = asNamespace.val

(***************************************************************************)
(* C13                                                                     *)
(***************************************************************************)
\* the attributes of element that have the name
AttributesNamed(element, name) ==
    {n \in DOMAIN attributes(element) : attributeName(attributes(element)[n]) = name}

\* C13: whenever reconstitute returns, for every designated element of the
\* translation and every attribute of it whose name is also the name of a
\* hidden attribute that the original holds for the designation, the
\* element at its place in the returned tree has exactly one attribute of
\* that name, and its value is the translator's.
C13_TranslatorWins ==
    \A i \in DOMAIN calls :
        calls[i].stage = "return"
        => LET definitions == namedExpressionDefinitions(calls[i].message).val
               paths == NodePaths(calls[i].parsed)
           IN  \A j \in DOMAIN paths :
                   LET t == getIn(calls[i].parsed, paths[j])
                       r == getIn(calls[i].result, paths[j])
                   IN  IsDesignatedIn(t, definitions)
                       => \A a \in Range(attributes(t)) :
                              (\E h \in Range(DefinitionsGet(definitions,
                                                            componentDesignation(t)).items) :
                                   attributeName(h) = attributeName(a))
                              => /\ Cardinality(AttributesNamed(r, attributeName(a))) = 1
                                 /\ HasAttribute(r, attributeName(a), a.value)

(***************************************************************************)
(* C14                                                                     *)
(***************************************************************************)
\* C14: when extractMessages returns the keys of the document, every key
\* that substitute computes and looks up for the document is one of them.
C14_KeyAgreement ==
    extracted.state = "returned"
    => \A i \in DOMAIN calls :
           calls[i].stage # "sanitize" => calls[i].key \in Range(extracted.value)

(***************************************************************************)
(* C15                                                                     *)
(***************************************************************************)
\* the expressions of the expression containers of a tree
ExpressionsOf(tree) ==
    {n.expression : n \in {x \in NodesOf(tree) : x.type = "XJSExpressionContainer"}}

\* The translation uses the name of a designation as a placeholder or the
\* name of a placeholder as a designation.
KindConfused(translatedAst, definitions) ==
    \E n \in NodesOf(translatedAst) :
        \/ /\ n.type = "XJSExpressionContainer"
           /\ isNamedExpression(n.expression)
           /\ DefinitionsHas(definitions, generate(n.expression))
           /\ DefinitionsGet(definitions, generate(n.expression)).type = "List"
        \/ /\ n.type = "XJSElement"
           /\ componentDesignation(n) # Undefined
           /\ DefinitionsHas(definitions, componentDesignation(n))
           /\ DefinitionsGet(definitions, componentDesignation(n)).type # "List"

\* C15: for every parsed translation, the expression of every expression
\* container of a tree that reconstitute returns is the expression of an
\* expression container of the original message, and reconstitute raises
\* an input error on a translation that uses a designation as a placeholder
\* or a placeholder name as a designation.
C15_KindsNotConfused ==
    \A i \in DOMAIN calls :
        (calls[i].parsed # Null /\ namedExpressionDefinitions(calls[i].message).ok)
        => LET r == reconstitute(calls[i].parsed, calls[i].message)
               definitions == namedExpressionDefinitions(calls[i].message).val
           IN  /\ r.ok => ExpressionsOf(r.val) \subseteq ExpressionsOf(calls[i].message)
               /\ KindConfused(calls[i].parsed, definitions)
                  => (~r.ok /\ isInputError(r.err))
=============================================================================
